---------------------------- MODULE Spec2Model ----------------------------
(***************************************************************************)
(* Model of avrae-search-nn: the ranking strategies and the evaluation     *)
(* loop of spell_evaluation.py, and the index / aggregation / encoding     *)
(* steps of preprocess.py.                                                 *)
(*                                                                         *)
(* Conventions.  A Python list is a sequence (index i of the code is       *)
(* i + 1 here); a dict is a function whose DOMAIN is its key set; a float  *)
(* is an exact fraction <<numerator, denominator>> with a positive         *)
(* denominator, compared by cross-multiplication; a str that the code      *)
(* looks into is a sequence of one-character strings.                      *)
(***************************************************************************)
EXTENDS Integers, Sequences, FiniteSets, TLC

VARIABLES choices, fuzzy_scores, prediction, return_weights, rank_pc, rank_ret

VARIABLES query_pairs, top_1, top_2, top_3, top_10, failed, top_5, ev_i, ev_pc, ev_ret

rankVars == <<choices, fuzzy_scores, prediction, return_weights, rank_pc, rank_ret>>

VARIABLES tk_raw, magic_string, use_index, tk_query, tk_tokenized, tk_pc

tokVars == <<tk_raw, magic_string, use_index, tk_query, tk_tokenized, tk_pc>>

VARIABLES query, sub_pc, sub_ret

\* naive_partial_match shares the parameters choices and return_weights
subVars == <<query, sub_pc, sub_ret>>

VARIABLES result_objs, data, mapped, reverse_map, srd_mapped, srd_reverse_map,
          map_file, srd_map_file, cleaned, srd_cleaned, recount, pp_pc

ppVars == <<result_objs, data, mapped, reverse_map, srd_mapped, srd_reverse_map,
            map_file, srd_map_file, cleaned, srd_cleaned, recount, pp_pc>>

VARIABLES result_counts, num_results, vec, vec_pc

vecVars == <<result_counts, num_results, vec, vec_pc>>

VARIABLES SRD, map_, loaded_reverse_map, load_pc

loadVars == <<SRD, map_, loaded_reverse_map, load_pc>>

evalVars == <<query_pairs, top_1, top_2, top_3, top_10, failed, top_5, ev_i, ev_pc, ev_ret>>

vars == <<rankVars, evalVars, tokVars, subVars, ppVars, loadVars, vecVars>>

\* what each part of the program leaves alone
notRank == <<evalVars, tokVars, subVars, ppVars, loadVars, vecVars>>

notEval == <<rankVars, tokVars, subVars, ppVars, loadVars, vecVars>>

notTok == <<rankVars, evalVars, subVars, ppVars, loadVars, vecVars>>

notSub == <<fuzzy_scores, prediction, rank_pc, rank_ret, evalVars, tokVars, ppVars, loadVars, vecVars>>

notPp == <<rankVars, evalVars, tokVars, subVars, loadVars, vecVars>>

notVec == <<rankVars, evalVars, tokVars, subVars, ppVars, loadVars>>

notLoad == <<rankVars, evalVars, tokVars, subVars, ppVars, vecVars>>

----------------------------------------------------------------------------
(* Generic helpers                                                         *)

Range(s) == {s[i] : i \in DOMAIN s}

Max(a, b) == IF a >= b THEN a ELSE b

Min(a, b) == IF a <= b THEN a ELSE b

\* s[:n]
Take(s, n) == SubSeq(s, 1, Min(n, Len(s)))

\* all sequences over S of length 0..n
SeqsUpTo(S, n) == UNION {[1..k -> S] : k \in 0..n}

\* fractions: <<p, q>> stands for p / q, q > 0
FracLeq(a, b) == a[1] * b[2] <= b[1] * a[2]

FracEq(a, b) == a[1] * b[2] = b[1] * a[2]

FracLt(a, b) == a[1] * b[2] < b[1] * a[2]

\* max(a, b) of Python: a unless b is greater
FracMax(a, b) == IF FracLt(a, b) THEN b ELSE a

\* a / b, b > 0
FracDiv(a, b) == <<a[1] * b[2], a[2] * b[1]>>

RECURSIVE SumSeq(_)
SumSeq(s) == IF s = <<>> THEN 0 ELSE s[1] + SumSeq(Tail(s))

\* list.insert that keeps a descending list stable: e goes after every
\* element whose key is >= its own
RECURSIVE InsertDesc(_, _)
InsertDesc(e, s) ==
    IF s = <<>> THEN <<e>>
    ELSE IF FracLeq(e[2], s[1][2]) THEN <<s[1]>> \o InsertDesc(e, Tail(s))
    ELSE <<e>> \o s

\* sorted(s, key=lambda e: e[1], reverse=True): descending by e[2] here,
\* equal keys keep their order (Python's sort is stable, also reversed)
RECURSIVE SortDescFrom(_, _)
SortDescFrom(s, k) ==
    IF k = 0 THEN <<>> ELSE InsertDesc(s[k], SortDescFrom(s, k - 1))

SortDescStable(s) == SortDescFrom(s, Len(s))

----------------------------------------------------------------------------
(* spell_evaluation.py: pure_model and mixed_model                         *)

\* bound: size of the small catalog offered to the ranking strategies
SmallCatalog == 3

\* bound: size of the catalog that has more names than process.extract
\* returns
NumNames == 6

NamePool == <<"A", "B", "C", "D", "E", "F", "G", "H">>

\* fuzz.ratio scores (integers in 0..100) the model draws from
FuzzScores == {0, 60, 80}

\* scorer outputs the model draws from
Weights == {<<0, 1>>, <<1, 5>>, <<7, 10>>}

\* process.extract's default limit
ExtractLimit == 5

\* weighted[:10]
TopN == 10

\* [s['name'] for s in choices]
NamesOf(ch) == [i \in 1..Len(ch) |-> ch[i].name]

\* process.extract(query, names, scorer=fuzz.ratio): one (name, score) per
\* name, the ExtractLimit best by score, equal scores in catalog order
extract(names, scores) ==
    Take(SortDescStable([i \in 1..Len(names) |-> <<names[i], <<scores[i], 1>>>>]),
         ExtractLimit)

\* list(enumerate(prediction)); sorted(..., key=e[1], reverse=True)
weightedOf(pred) ==
    SortDescStable([i \in 1..Len(pred) |-> <<i - 1, pred[i]>>])

\* mutant: every occurrence is kept
UniqueNone(s, seen) == s

\* the unique-ing loop of mixed_model: first occurrence of each name
RECURSIVE UniqueFirst(_, _)
UniqueFirst(s, seen) ==
    IF s = <<>> THEN <<>>
    ELSE IF s[1][1] \in seen THEN UniqueFirst(Tail(s), seen)
    ELSE <<s[1]>> \o UniqueFirst(Tail(s), seen \cup {s[1][1]})

\* the 0.001 of max(..., 0.001)
FuzzyFloor == <<1, 1000>>

\* max(sum(r[1] for r in fuzzy_results), 0.001)
fuzzy_sum(fuzzy_results) ==
    FracMax(<<SumSeq([i \in 1..Len(fuzzy_results) |-> fuzzy_results[i][2][1]]), 1>>,
            FuzzyFloor)

\* mutant: the fuzzy scores are merged as they are, not divided by their sum
fuzzy_matches_raw(fuzzy_results) ==
    [i \in 1..Len(fuzzy_results) |-> <<fuzzy_results[i][1], fuzzy_results[i][2]>>]

\* [(r[0], r[1] / fuzzy_sum) for r in fuzzy_results]
fuzzy_matches_and_confidences(fuzzy_results) ==
    [i \in 1..Len(fuzzy_results) |->
        <<fuzzy_results[i][1],
          FracDiv(fuzzy_results[i][2], fuzzy_sum(fuzzy_results))>>]

\* sorted(fuzzy_matches_and_confidences + net_weighted, ...)
sorted_weighted(fmc, net_weighted) == SortDescStable(fmc \o net_weighted)

\* choices[r[0]] raises IndexError for an id the catalog does not have
IndexOk(ch, ws) == \A i \in 1..Len(ws) : ws[i][1] < Len(ch)

Raise(e) == [raised |-> e, value |-> <<>>]

Return(v) == [raised |-> "", value |-> v]

\* the outcome of pure_model: the list it returns, or the IndexError of
\* choices[r[0]]
pure_model(ch, pred, rw) ==
    LET weighted == weightedOf(pred)
        top == Take(weighted, TopN)
    IN  IF ~IndexOk(ch, top) THEN Raise("IndexError")
        ELSE IF ~rw THEN Return([i \in 1..Len(top) |-> ch[top[i][1] + 1].name])
        ELSE Return([i \in 1..Len(top) |-> <<ch[top[i][1] + 1].name, top[i][2]>>])

\* the outcome of mixed_model
mixed_model(ch, scores, pred, rw) ==
    LET names == NamesOf(ch)
        fuzzy_results == extract(names, scores)
        fmc == fuzzy_matches_and_confidences(fuzzy_results)
        weighted == weightedOf(pred)
    IN  IF ~IndexOk(ch, weighted) THEN Raise("IndexError")
        ELSE LET net_weighted ==
                     [i \in 1..Len(weighted) |->
                         <<ch[weighted[i][1] + 1].name, weighted[i][2]>>]
                 uniq == UniqueFirst(sorted_weighted(fmc, net_weighted), {})
             IN  IF ~rw THEN Return([i \in 1..Len(uniq) |-> uniq[i][1]])
                 ELSE Return(uniq)

\* fuzz.ratio scores of n names: any scores for the small catalog; for the
\* large one all names alike but for one or two
FuzzyInputs(n) ==
    IF n <= SmallCatalog THEN [1..n -> FuzzScores]
    ELSE {f \in [1..n -> FuzzScores] :
            \/ Cardinality({i \in 1..n : f[i] # 0}) <= 2
            \/ Cardinality({i \in 1..n : f[i] # 60}) <= 1}

\* scorer outputs for n names: probability-like (at most two weights above
\* 0, adding up to at most 1), of any length up to n + 1 for the small
\* catalog and of length n for the large one
Predictions(n) ==
    {p \in UNION {[1..k -> Weights] :
                    k \in (IF n <= SmallCatalog THEN 0..(n + 1) ELSE {n})} :
        /\ Cardinality({i \in 1..Len(p) : p[i][1] # 0}) <= 2
        /\ \A i, j \in 1..Len(p) :
              i # j => FracLeq(<<p[i][1] * p[j][2] + p[j][1] * p[i][2], p[i][2] * p[j][2]>>, <<1, 1>>)}

RankInit ==
    /\ \E n \in {SmallCatalog, NumNames} :
          /\ choices = [i \in 1..n |-> [name |-> NamePool[i]]]
          /\ fuzzy_scores \in FuzzyInputs(n)
          /\ prediction \in Predictions(n)
    /\ return_weights \in BOOLEAN
    /\ rank_pc = "call"
    /\ rank_ret = <<>>

RankIdle ==
    /\ choices = <<>>
    /\ fuzzy_scores = <<>>
    /\ prediction = <<>>
    /\ return_weights = FALSE
    /\ rank_pc = "idle"
    /\ rank_ret = <<>>

PureModel ==
    /\ rank_pc = "call"
    /\ LET r == pure_model(choices, prediction, return_weights)
       IN  /\ rank_pc' = IF r.raised # "" THEN "pure_" \o r.raised ELSE "pure_returned"
           /\ rank_ret' = r.value
    /\ UNCHANGED <<choices, fuzzy_scores, prediction, return_weights>>
    /\ UNCHANGED notRank

MixedModel ==
    /\ rank_pc = "call"
    /\ LET r == mixed_model(choices, fuzzy_scores, prediction, return_weights)
       IN  /\ rank_pc' = IF r.raised # "" THEN "mixed_" \o r.raised ELSE "mixed_returned"
           /\ rank_ret' = r.value
    /\ UNCHANGED <<choices, fuzzy_scores, prediction, return_weights>>
    /\ UNCHANGED notRank

RankNext == PureModel \/ MixedModel

----------------------------------------------------------------------------
(* spell_evaluation.py: evaluate                                           *)

\* top_5[:10]
Top10 == 10

\* bound: number of labeled pairs replayed
MaxPairs == 2

\* bound: length of the freely chosen head of a ranking
MaxHead == 3

\* the map index -> name handed to evaluate as reverse_map
EvalReverseMap == [i \in 0..1 |-> NamePool[i + 1]]

\* a name no labeled pair expects
Filler == NamePool[3]

RECURSIVE Repeat(_, _)
Repeat(e, k) == IF k = 0 THEN <<>> ELSE <<e>> \o Repeat(e, k - 1)

\* what a search function may return: any head of up to MaxHead names, then
\* a run of other names, then possibly one more name, which lands inside or
\* outside top_5[:10]
Rankings ==
    {h \o Repeat(Filler, k) \o t :
        h \in SeqsUpTo({EvalReverseMap[0], Filler}, MaxHead),
        k \in {0, Top10 - MaxHead - 1, Top10 - MaxHead},
        t \in SeqsUpTo({EvalReverseMap[0]}, 1)}

EvalInit ==
    /\ query_pairs \in SeqsUpTo(DOMAIN EvalReverseMap, MaxPairs)
    /\ top_1 = 0 /\ top_2 = 0 /\ top_3 = 0 /\ top_10 = 0
    /\ failed = <<>>
    /\ top_5 = <<>>
    /\ ev_i = 0
    /\ ev_pc = "loop"
    /\ ev_ret = <<>>

EvalIdle ==
    /\ query_pairs = <<>>
    /\ top_1 = 0 /\ top_2 = 0 /\ top_3 = 0 /\ top_10 = 0
    /\ failed = <<>>
    /\ top_5 = <<>>
    /\ ev_i = 0
    /\ ev_pc = "idle"
    /\ ev_ret = <<>>

\* mutant: the top-10 test is an `if` of its own, not an `elif`
BucketsTop10Twice(ranking, expected_result_name) ==
    (IF Len(ranking) > 0 /\ ranking[1] = expected_result_name THEN {"top_1"}
     ELSE IF Len(ranking) > 1 /\ ranking[2] = expected_result_name THEN {"top_2"}
     ELSE IF Len(ranking) > 2 /\ ranking[3] = expected_result_name THEN {"top_3"}
     ELSE {})
    \cup (IF Len(ranking) > 2 /\ expected_result_name \in Range(Take(ranking, Top10))
          THEN {"top_10"} ELSE {"failed"})

\* the counters one pair increments: the if / elif / else chain of the loop
\* body
Buckets(ranking, expected_result_name) ==
    IF Len(ranking) > 0 /\ ranking[1] = expected_result_name THEN {"top_1"}
    ELSE IF Len(ranking) > 1 /\ ranking[2] = expected_result_name THEN {"top_2"}
    ELSE IF Len(ranking) > 2 /\ ranking[3] = expected_result_name THEN {"top_3"}
    ELSE IF Len(ranking) > 2 /\ expected_result_name \in Range(Take(ranking, Top10))
         THEN {"top_10"}
    ELSE {"failed"}

\* one iteration of `for query, expected_result in query_pairs`
EvaluateStep ==
    /\ ev_pc = "loop"
    /\ ev_i < Len(query_pairs)
    /\ \E ranking \in Rankings :
          LET expected_result_name == EvalReverseMap[query_pairs[ev_i + 1]]
              b == Buckets(ranking, expected_result_name)
          IN  /\ top_5' = ranking
              /\ top_1' = IF "top_1" \in b THEN top_1 + 1 ELSE top_1
              /\ top_2' = IF "top_2" \in b THEN top_2 + 1 ELSE top_2
              /\ top_3' = IF "top_3" \in b THEN top_3 + 1 ELSE top_3
              /\ top_10' = IF "top_10" \in b THEN top_10 + 1 ELSE top_10
              /\ failed' = IF "failed" \in b
                           THEN Append(failed, [query |-> ev_i, expected |-> expected_result_name])
                           ELSE failed
    /\ ev_i' = ev_i + 1
    /\ UNCHANGED <<query_pairs, ev_pc, ev_ret>>
    /\ UNCHANGED notEval

\* return top_1, top_2, top_3, len(failed), end - start, top_10
EvaluateReturn ==
    /\ ev_pc = "loop"
    /\ ev_i = Len(query_pairs)
    /\ ev_pc' = "returned"
    /\ ev_ret' = [t1 |-> top_1, t2 |-> top_2, t3 |-> top_3, f |-> Len(failed), t10 |-> top_10]
    /\ UNCHANGED <<query_pairs, top_1, top_2, top_3, top_10, failed, top_5, ev_i>>
    /\ UNCHANGED notEval

EvalNext == EvaluateStep \/ EvaluateReturn

----------------------------------------------------------------------------
(* preprocess.py: clean and tokenize                                       *)

MAGIC_1 == <<"a", "b", "c", "d", "e", "f", "g", "h", "i", "j", "k", "l", "m",
             "n", "o", "p", "q", "r", "s", "t", "u", "v", "w", "x", "y", "z",
             " ", "'">>

MAGIC_2 == <<"q", "w", "e", "r", "t", "y", "u", "i", "o", "p", "a", "s", "d",
             "f", "g", "h", "j", "k", "l", "'", "z", "x", "c", "v", "b", "n",
             "m", " ">>

INPUT_LENGTH == 16

UpperCase == <<"A", "B", "C", "D", "E", "F", "G", "H", "I", "J", "K", "L", "M",
               "N", "O", "P", "Q", "R", "S", "T", "U", "V", "W", "X", "Y", "Z">>

\* str.lower on one character
LowerChar(c) ==
    IF c \in Range(UpperCase)
    THEN MAGIC_1[CHOOSE i \in 1..Len(UpperCase) : UpperCase[i] = c]
    ELSE c

\* str.lower
lower(str) == [i \in 1..Len(str) |-> LowerChar(str[i])]

\* ''.join(c for c in filtered if c in MAGIC_1)
RECURSIVE FilterMagic(_)
FilterMagic(str) ==
    IF str = <<>> THEN <<>>
    ELSE IF str[1] \in Range(MAGIC_1) THEN <<str[1]>> \o FilterMagic(Tail(str))
    ELSE FilterMagic(Tail(str))

\* str.strip: leading and trailing whitespace removed
RECURSIVE strip(_)
strip(str) ==
    IF str = <<>> THEN <<>>
    ELSE IF str[1] = " " THEN strip(Tail(str))
    ELSE IF str[Len(str)] = " " THEN strip(SubSeq(str, 1, Len(str) - 1))
    ELSE str

\* clean(query)
clean(q) == strip(Take(FilterMagic(lower(q)), INPUT_LENGTH))

\* str.index: the lowest position of char, counted from 0
index(magic, char) == (CHOOSE i \in 1..Len(magic) :
                          magic[i] = char /\ \A j \in 1..(i - 1) : magic[j] # char) - 1

\* mutant: the code of a character is its position counted from 0, so the
\* first character of the alphabet is encoded as the padding value
tokenize_zero_based(q, magic, indexed) ==
    IF Len(q) > INPUT_LENGTH THEN Raise("IndexError")
    ELSE IF \E i \in 1..Len(q) : q[i] \notin Range(magic) THEN Raise("ValueError")
    ELSE Return([i \in 1..INPUT_LENGTH |->
            IF i <= Len(q)
            THEN (IF indexed THEN index(magic, q[i]) ELSE <<index(magic, q[i]), Len(magic)>>)
            ELSE (IF indexed THEN 0 ELSE <<0, 1>>)])

\* the outcome of tokenize: tokenized[i] = ... raises IndexError beyond
\* INPUT_LENGTH, magic_string.index raises ValueError for a foreign character
tokenize(q, magic, indexed) ==
    IF Len(q) > INPUT_LENGTH THEN Raise("IndexError")
    ELSE IF \E i \in 1..Len(q) : q[i] \notin Range(magic) THEN Raise("ValueError")
    ELSE Return([i \in 1..INPUT_LENGTH |->
            IF i <= Len(q)
            THEN (IF indexed THEN index(magic, q[i]) + 1
                  ELSE <<index(magic, q[i]) + 1, Len(magic)>>)
            ELSE (IF indexed THEN 0 ELSE <<0, 1>>)])

\* the alphabet a scorer configuration names
Magic(name) == IF name = "MAGIC_1" THEN MAGIC_1 ELSE MAGIC_2

\* bound: length of the freely chosen end of a raw query
MaxTail == 2

\* characters raw queries end in: a letter, a capital, a space, and one
\* character outside the alphabet
RawChars == {"a", "Q", " ", "-"}

\* raw queries: short ones, and ones that reach past INPUT_LENGTH
RawQueries(pre) == {pre \o t : t \in SeqsUpTo(RawChars, MaxTail)}

TokInit ==
    /\ \E pre \in {<<>>, SubSeq(MAGIC_1, 1, INPUT_LENGTH - 1)} :
          tk_raw \in [1..2 -> RawQueries(pre)]
    /\ magic_string \in {"MAGIC_1", "MAGIC_2"}
    /\ use_index \in BOOLEAN
    /\ tk_query = <<>>
    /\ tk_tokenized = <<>>
    /\ tk_pc = "raw"

TokIdle ==
    /\ tk_raw = <<>>
    /\ magic_string = ""
    /\ use_index = FALSE
    /\ tk_query = <<>>
    /\ tk_tokenized = <<>>
    /\ tk_pc = "idle"

\* query = clean(query), for both queries
Clean ==
    /\ tk_pc = "raw"
    /\ tk_query' = [i \in 1..Len(tk_raw) |-> clean(tk_raw[i])]
    /\ tk_pc' = "cleaned"
    /\ UNCHANGED <<tk_raw, magic_string, use_index, tk_tokenized>>
    /\ UNCHANGED notTok

\* tokenize(query, magic_string, use_index) for every cleaned query
Tokenize ==
    /\ tk_pc = "cleaned"
    /\ LET r == [i \in 1..Len(tk_query) |-> tokenize(tk_query[i], Magic(magic_string), use_index)]
       IN  IF \E i \in 1..Len(r) : r[i].raised # ""
           THEN /\ tk_pc' = "raised"
                /\ tk_tokenized' = <<>>
           ELSE /\ tk_pc' = "tokenized"
                /\ tk_tokenized' = [i \in 1..Len(r) |-> r[i].value]
    /\ UNCHANGED <<tk_raw, magic_string, use_index, tk_query>>
    /\ UNCHANGED notTok

TokNext == Clean \/ Tokenize

----------------------------------------------------------------------------
(* spell_evaluation.py: naive_partial_match                                *)

\* bound: number of catalog entries offered to naive_partial_match
MaxCatalog == 3

\* catalog names the model draws from: two that differ in case only, one
\* that extends them, one that holds them inside, one apart
SubNames == {<<"a", "b">>, <<"A", "b">>, <<"a", "b", "c">>,
             <<"c", "a", "b", "a">>, <<"b">>}

SubQueries == {<<>>, <<"a", "b">>, <<"A", "B">>, <<"b">>, <<"c", "c">>}

\* `sub in str` of Python
Contains(str, sub) ==
    \E i \in 0..(Len(str) - Len(sub)) : SubSeq(str, i + 1, i + Len(sub)) = sub

\* [s['name'] for s in choices if s['name'].lower() == query.lower()]
full_matches(ch, q) ==
    SelectSeq(NamesOf(ch), LAMBDA n : lower(n) = lower(q))

\* mutant: names already among the full matches are not left out
partial_matches_all(ch, q, full) ==
    SelectSeq(NamesOf(ch), LAMBDA n : Contains(lower(n), lower(q)))

\* [s['name'] for s in choices if query.lower() in s['name'].lower()
\*  and s['name'] not in full_matches]
partial_matches(ch, q, full) ==
    SelectSeq(NamesOf(ch), LAMBDA n : Contains(lower(n), lower(q)) /\ n \notin Range(full))

\* the outcome of naive_partial_match; len(query) / len(r) raises
\* ZeroDivisionError for an empty name
naive_partial_match(ch, q, rw) ==
    LET full == full_matches(ch, q)
        results == full \o partial_matches(ch, q, full)
    IN  IF ~rw THEN Return(results)
        ELSE IF \E i \in 1..Len(results) : Len(results[i]) = 0
             THEN Raise("ZeroDivisionError")
        ELSE Return(SortDescStable(
                 [i \in 1..Len(results) |-> <<results[i], <<Len(q), Len(results[i])>>>>]))

\* catalogs of at most n entries with unique names
Catalogs(entries, n) ==
    {c \in SeqsUpTo(entries, n) :
        \A i, j \in 1..Len(c) : i < j => c[i].name # c[j].name}

SubInit ==
    /\ choices \in Catalogs([name : SubNames], MaxCatalog)
    /\ query \in SubQueries
    /\ return_weights \in BOOLEAN
    /\ sub_pc = "call"
    /\ sub_ret = <<>>
    /\ fuzzy_scores = <<>>
    /\ prediction = <<>>
    /\ rank_pc = "idle"
    /\ rank_ret = <<>>

SubIdle ==
    /\ query = <<>>
    /\ sub_pc = "idle"
    /\ sub_ret = <<>>

NaivePartialMatch ==
    /\ sub_pc = "call"
    /\ LET r == naive_partial_match(choices, query, return_weights)
       IN  /\ sub_pc' = IF r.raised # "" THEN r.raised ELSE "returned"
           /\ sub_ret' = r.value
    /\ UNCHANGED <<choices, query, return_weights>>
    /\ UNCHANGED notSub

SubNext == NaivePartialMatch

----------------------------------------------------------------------------
(* preprocess.py: map_data, clean_queries, clean_dupes;                    *)
(* spell_evaluation.py: load_map                                           *)

\* what dict.get returns for a missing key
None == -1

\* d[k] = v
Put(d, k, v) == [x \in DOMAIN d \cup {k} |-> IF x = k THEN v ELSE d[x]]

EmptyDict == [x \in {} |-> 0]

Digits == <<"0", "1", "2", "3", "4", "5", "6", "7", "8", "9">>

\* str(i), as json.dump writes an int key
RECURSIVE IntToStr(_)
IntToStr(i) ==
    IF i < 10 THEN <<Digits[i + 1]>>
    ELSE IntToStr(i \div 10) \o <<Digits[(i % 10) + 1]>>

\* int(k)
RECURSIVE StrToInt(_)
StrToInt(k) ==
    IF k = <<>> THEN 0
    ELSE 10 * StrToInt(SubSeq(k, 1, Len(k) - 1))
         + (CHOOSE d \in 0..9 : Digits[d + 1] = k[Len(k)])

\* json.dump(mapped, f): the keys are written as strings
json_dump(d) ==
    LET back == [k \in {IntToStr(i) : i \in DOMAIN d} |->
                    CHOOSE i \in DOMAIN d : IntToStr(i) = k]
    IN  [k \in DOMAIN back |-> d[back[k]]]

\* the two loops `for i, entry in enumerate(objs)`: after the first k
\* entries
RECURSIVE enumerate_maps(_, _)
enumerate_maps(objs, k) ==
    IF k = 0 THEN [map |-> EmptyDict, reverse |-> EmptyDict]
    ELSE LET m == enumerate_maps(objs, k - 1)
         IN  [map |-> Put(m.map, k - 1, objs[k].name),
              reverse |-> Put(m.reverse, objs[k].name, k - 1)]

\* [o for o in result_objs if o.get('srd')]
srd_result_objs(objs) == SelectSeq(objs, LAMBDA o : o.srd)

\* mutant: the restricted map keeps the ids of the full map
srd_maps_full_ids(objs) ==
    LET full == enumerate_maps(objs, Len(objs))
        keep == {i \in DOMAIN full.map : objs[i + 1].srd}
    IN  [map |-> [i \in keep |-> full.map[i]],
         reverse |-> [n \in {full.map[i] : i \in keep} |-> full.reverse[n]]]

\* srd_mapped and srd_reverse_map
srd_maps(objs) ==
    enumerate_maps(srd_result_objs(objs), Len(srd_result_objs(objs)))

\* entry['result'] = reverse_map[res];
\* entry['srd_result'] = srd_reverse_map.get(res)
map_entry(entry, rev, srd_rev) ==
    [query |-> entry.query,
     result |-> rev[entry.result],
     srd_result |-> IF entry.result \in DOMAIN srd_rev THEN srd_rev[entry.result] ELSE None]

\* mutant: the counter of a query is replaced, not incremented
clean_dupes_step_overwrite(queries, entry, srd) ==
    LET result == IF srd THEN entry.srd_result ELSE entry.result
    IN  IF srd /\ result = None THEN queries
        ELSE Put(queries, entry.query, Put(EmptyDict, result, 1))

\* mutant: queries[query] is read before the None test, which makes the
\* defaultdict create the key
clean_dupes_step_touch(queries, entry, srd) ==
    LET result == IF srd THEN entry.srd_result ELSE entry.result
        touched == IF entry.query \in DOMAIN queries THEN queries
                   ELSE Put(queries, entry.query, EmptyDict)
        counter == touched[entry.query]
    IN  IF srd /\ result = None THEN touched
        ELSE Put(touched, entry.query,
                 Put(counter, result,
                     (IF result \in DOMAIN counter THEN counter[result] ELSE 0) + 1))

\* the body of the loop of clean_dupes: queries[query][result] += 1 on a
\* defaultdict of Counters, unless srd and entry['srd_result'] is None
clean_dupes_step(queries, entry, srd) ==
    LET result == IF srd THEN entry.srd_result ELSE entry.result
        counter == IF entry.query \in DOMAIN queries THEN queries[entry.query]
                   ELSE EmptyDict
    IN  IF srd /\ result = None THEN queries
        ELSE Put(queries, entry.query,
                 Put(counter, result,
                     (IF result \in DOMAIN counter THEN counter[result] ELSE 0) + 1))

RECURSIVE clean_dupes_from(_, _, _)
clean_dupes_from(d, k, srd) ==
    IF k = 0 THEN EmptyDict
    ELSE clean_dupes_step(clean_dupes_from(d, k - 1, srd), d[k], srd)

\* clean_dupes(data, srd)
clean_dupes(d, srd) == clean_dupes_from(d, Len(d), srd)

\* Counter + Counter for every query of either part
CounterMerge(a, b) ==
    [q \in DOMAIN a \cup DOMAIN b |->
        LET ca == IF q \in DOMAIN a THEN a[q] ELSE EmptyDict
            cb == IF q \in DOMAIN b THEN b[q] ELSE EmptyDict
        IN  [r \in DOMAIN ca \cup DOMAIN cb |->
                (IF r \in DOMAIN ca THEN ca[r] ELSE 0)
                + (IF r \in DOMAIN cb THEN cb[r] ELSE 0)]]

\* bound: number of raw observations
MaxObs == 3

\* bound: number of catalog entries indexed
MaxObjs == 3

IndexNames == {"A", "B", "C", "D"}

\* the catalog the observations are about: ids 0, 1, 2, restricted ids
\* 0, 1 for B and C
AggCatalog == <<[name |-> "A", srd |-> FALSE], [name |-> "B", srd |-> TRUE],
                [name |-> "C", srd |-> TRUE]>>

\* raw queries: the first two are one query once cleaned
AggQueries == {<<"a">>, <<"A", " ">>, <<"q">>}

PpBlank ==
    /\ mapped = EmptyDict /\ reverse_map = EmptyDict
    /\ srd_mapped = EmptyDict /\ srd_reverse_map = EmptyDict
    /\ map_file = EmptyDict /\ srd_map_file = EmptyDict
    /\ cleaned = EmptyDict /\ srd_cleaned = EmptyDict
    /\ recount = <<>>

LoadBlank ==
    /\ SRD = FALSE
    /\ map_ = EmptyDict
    /\ loaded_reverse_map = EmptyDict
    /\ load_pc = "start"

AggInit ==
    /\ result_objs = AggCatalog
    /\ data \in SeqsUpTo([query : AggQueries, result : Range(NamesOf(AggCatalog))], MaxObs)
    /\ PpBlank
    /\ pp_pc = "loaded"

IndexInit ==
    /\ result_objs \in Catalogs([name : IndexNames, srd : BOOLEAN], MaxObjs)
    /\ data = <<>>
    /\ PpBlank
    /\ pp_pc = "loaded"

PpIdle ==
    /\ result_objs = <<>>
    /\ data = <<>>
    /\ PpBlank
    /\ pp_pc = "idle"

\* map_data: both maps built and dumped, every query's result mapped
MapData ==
    /\ pp_pc = "loaded"
    /\ LET full == enumerate_maps(result_objs, Len(result_objs))
           restricted == srd_maps(result_objs)
       IN  /\ mapped' = full.map
           /\ reverse_map' = full.reverse
           /\ map_file' = json_dump(full.map)
           /\ srd_mapped' = restricted.map
           /\ srd_reverse_map' = restricted.reverse
           /\ srd_map_file' = json_dump(restricted.map)
           /\ data' = [i \in 1..Len(data) |-> map_entry(data[i], full.reverse, restricted.reverse)]
    /\ pp_pc' = "mapped"
    /\ UNCHANGED <<result_objs, cleaned, srd_cleaned, recount>>
    /\ UNCHANGED notPp

\* clean_queries: entry['query'] = clean(entry['query'])
CleanQueries ==
    /\ pp_pc = "mapped"
    /\ data' = [i \in 1..Len(data) |-> [data[i] EXCEPT !.query = clean(data[i].query)]]
    /\ pp_pc' = "cleaned"
    /\ UNCHANGED <<result_objs, mapped, reverse_map, srd_mapped, srd_reverse_map,
                   map_file, srd_map_file, cleaned, srd_cleaned, recount>>
    /\ UNCHANGED notPp

\* cleaned = clean_dupes(data)
CleanDupes ==
    /\ pp_pc = "cleaned"
    /\ cleaned' = clean_dupes(data, FALSE)
    /\ pp_pc' = "deduped"
    /\ UNCHANGED <<result_objs, data, mapped, reverse_map, srd_mapped, srd_reverse_map,
                   map_file, srd_map_file, srd_cleaned, recount>>
    /\ UNCHANGED notPp

\* srd_cleaned = clean_dupes(data, True)
CleanDupesSrd ==
    /\ pp_pc = "deduped"
    /\ srd_cleaned' = clean_dupes(data, TRUE)
    /\ pp_pc' = "srd_deduped"
    /\ UNCHANGED <<result_objs, data, mapped, reverse_map, srd_mapped, srd_reverse_map,
                   map_file, srd_map_file, cleaned, recount>>
    /\ UNCHANGED notPp

Orders(n) == {f \in [1..n -> 1..n] : \A i, j \in 1..n : f[i] = f[j] => i = j}

\* the same two aggregations over the observations in another order
CleanDupesReordered ==
    /\ pp_pc = "srd_deduped"
    /\ \E perm \in Orders(Len(data)) :
          LET d == [i \in 1..Len(data) |-> data[perm[i]]]
          IN  recount' = [how |-> "reordered", order |-> perm,
                          full |-> clean_dupes(d, FALSE), srd |-> clean_dupes(d, TRUE)]
    /\ pp_pc' = "recounted"
    /\ UNCHANGED <<result_objs, data, mapped, reverse_map, srd_mapped, srd_reverse_map,
                   map_file, srd_map_file, cleaned, srd_cleaned>>
    /\ UNCHANGED notPp

\* the same two aggregations over two shards, the partial counters added
CleanDupesSharded ==
    /\ pp_pc = "srd_deduped"
    /\ \E cut \in 0..Len(data) :
          LET a == SubSeq(data, 1, cut)
              b == SubSeq(data, cut + 1, Len(data))
          IN  recount' = [how |-> "sharded", order |-> cut,
                          full |-> CounterMerge(clean_dupes(a, FALSE), clean_dupes(b, FALSE)),
                          srd |-> CounterMerge(clean_dupes(a, TRUE), clean_dupes(b, TRUE))]
    /\ pp_pc' = "recounted"
    /\ UNCHANGED <<result_objs, data, mapped, reverse_map, srd_mapped, srd_reverse_map,
                   map_file, srd_map_file, cleaned, srd_cleaned>>
    /\ UNCHANGED notPp

\* load_map: the dumped map read back, {int(k): v}, and inverted
LoadMap ==
    /\ pp_pc = "mapped"
    /\ load_pc = "start"
    /\ load_pc' = "loaded"
    /\ \E flag \in BOOLEAN :
          LET file == IF flag THEN srd_map_file ELSE map_file
              loaded == [i \in {StrToInt(k) : k \in DOMAIN file} |->
                            file[CHOOSE k \in DOMAIN file : StrToInt(k) = i]]
          IN  /\ SRD' = flag
              /\ map_' = loaded
              /\ loaded_reverse_map' =
                    [v \in {loaded[k] : k \in DOMAIN loaded} |->
                        CHOOSE k \in DOMAIN loaded :
                            /\ loaded[k] = v
                            /\ \A j \in DOMAIN loaded : loaded[j] = v => j <= k]
    /\ UNCHANGED notLoad

AggNext == MapData \/ CleanQueries \/ CleanDupes \/ CleanDupesSrd
           \/ CleanDupesReordered \/ CleanDupesSharded

IndexNext == MapData \/ LoadMap

----------------------------------------------------------------------------
(* preprocess.py: generate_y_vector                                        *)

\* bound: size of the catalog a label vector spans
MaxUniverse == 3

\* bound: greatest count of one id
MaxCount == 3

\* mutant: an id that was seen is marked 1, whatever its count
generate_y_vector_presence(res, n) ==
    IF \E i \in DOMAIN res : i >= n THEN Raise("IndexError")
    ELSE LET v == [i \in 1..n |-> IF (i - 1) \in DOMAIN res THEN 1 ELSE 0]
             vec_sum == SumSeq(v)
         IN  IF n > 0 /\ vec_sum = 0 THEN Raise("ZeroDivisionError")
             ELSE Return([i \in 1..n |-> <<v[i], vec_sum>>])

\* the outcome of generate_y_vector: vec[i] = count raises IndexError for an
\* id beyond the vector, vec[i] /= vec_sum raises ZeroDivisionError
generate_y_vector(res, n) ==
    IF \E i \in DOMAIN res : i >= n THEN Raise("IndexError")
    ELSE LET v == [i \in 1..n |-> IF (i - 1) \in DOMAIN res THEN res[i - 1] ELSE 0]
             vec_sum == SumSeq(v)
         IN  IF n > 0 /\ vec_sum = 0 THEN Raise("ZeroDivisionError")
             ELSE Return([i \in 1..n |-> <<v[i], vec_sum>>])

\* the Counters clean_dupes builds: at least one id, every count positive
Distributions(n) ==
    UNION {[ids -> 1..MaxCount] : ids \in (SUBSET (0..(n - 1))) \ {{}}}

VecInit ==
    /\ num_results \in 1..MaxUniverse
    /\ result_counts \in Distributions(num_results)
    /\ vec = <<>>
    /\ vec_pc = "call"

VecIdle ==
    /\ num_results = 0
    /\ result_counts = EmptyDict
    /\ vec = <<>>
    /\ vec_pc = "idle"

GenerateYVector ==
    /\ vec_pc = "call"
    /\ LET r == generate_y_vector(result_counts, num_results)
       IN  /\ vec_pc' = IF r.raised # "" THEN r.raised ELSE "returned"
           /\ vec' = r.value
    /\ UNCHANGED <<result_counts, num_results>>
    /\ UNCHANGED notVec

VecNext == GenerateYVector

----------------------------------------------------------------------------
(* Specifications                                                          *)

InitRank == RankInit /\ EvalIdle /\ TokIdle /\ SubIdle /\ PpIdle /\ LoadBlank /\ VecIdle

SpecRank == InitRank /\ [][RankNext]_vars

InitEval == RankIdle /\ EvalInit /\ TokIdle /\ SubIdle /\ PpIdle /\ LoadBlank /\ VecIdle

SpecEval == InitEval /\ [][EvalNext]_vars

InitTok == RankIdle /\ EvalIdle /\ TokInit /\ SubIdle /\ PpIdle /\ LoadBlank /\ VecIdle

SpecTok == InitTok /\ [][TokNext]_vars

InitSub == SubInit /\ EvalIdle /\ TokIdle /\ PpIdle /\ LoadBlank /\ VecIdle

SpecSub == InitSub /\ [][SubNext]_vars

InitAgg == RankIdle /\ EvalIdle /\ TokIdle /\ SubIdle /\ AggInit /\ LoadBlank /\ VecIdle

SpecAgg == InitAgg /\ [][AggNext]_vars

InitIndex == RankIdle /\ EvalIdle /\ TokIdle /\ SubIdle /\ IndexInit /\ LoadBlank /\ VecIdle

SpecIndex == InitIndex /\ [][IndexNext]_vars

InitVec == RankIdle /\ EvalIdle /\ TokIdle /\ SubIdle /\ PpIdle /\ LoadBlank /\ VecInit

SpecVec == InitVec /\ [][VecNext]_vars

\* the whole repository: any one of its entry points, on its inputs
Init == InitRank \/ InitEval \/ InitTok \/ InitSub \/ InitAgg \/ InitIndex \/ InitVec

Next == RankNext \/ EvalNext \/ TokNext \/ SubNext \/ AggNext \/ LoadMap \/ VecNext

Spec == Init /\ [][Next]_vars

----------------------------------------------------------------------------
(* Claims about the ensemble merge and the learned strategy                *)

\* name of the i-th returned candidate
RetName(i) == IF return_weights THEN rank_ret[i][1] ELSE rank_ret[i]

\* the fuzzy list mixed_model was given by process.extract
FuzzyGiven == extract(NamesOf(choices), fuzzy_scores)

\* names of the scorer list: one per id the scorer emitted a weight for
ScorerNames == {choices[i].name : i \in 1..Min(Len(prediction), Len(choices))}

\* C1: the list mixed_model returns holds no name twice, only names of the
\* fuzzy list or of the scorer list, and (with weights) confidences that
\* never increase from one position to the next.
C1_MergeWellFormed ==
    rank_pc = "mixed_returned" =>
        LET given == {FuzzyGiven[k][1] : k \in 1..Len(FuzzyGiven)} \cup ScorerNames
        IN  /\ \A i, j \in 1..Len(rank_ret) : i < j => RetName(i) # RetName(j)
            /\ \A i \in 1..Len(rank_ret) : RetName(i) \in given
            /\ return_weights =>
                  \A i \in 1..Len(rank_ret) - 1 : FracLeq(rank_ret[i + 1][2], rank_ret[i][2])

\* C1 witness: the catalog has more names than the fuzzy list; a merge
\* returned a name only the scorer list holds ahead of a fuzzy name, with
\* fewer entries than the two lists together, so duplicates were dropped.
C1_Witness ==
    /\ rank_pc = "mixed_returned"
    /\ return_weights
    /\ Len(FuzzyGiven) < Len(choices)
    /\ Len(rank_ret) = Len(choices)
    /\ Len(rank_ret) < Len(FuzzyGiven) + Len(prediction)
    /\ rank_ret[1][1] \notin {FuzzyGiven[k][1] : k \in 1..Len(FuzzyGiven)}
    /\ FracLt(rank_ret[2][2], rank_ret[1][2])

\* score / max(sum, 0.001), written out: the sum of integer scores is 0 or
\* at least 1
NormalizedFuzzy(score, sum) == IF sum = 0 THEN <<1000 * score, 1>> ELSE <<score, sum>>

\* the confidences name n has in the concatenation of the fuzzy list fz
\* (whose scores add up to sum) and the scorer list
CandidateConfs(fz, sum, n) ==
    {NormalizedFuzzy(fz[k][2][1], sum) : k \in {k \in 1..Len(fz) : fz[k][1] = n}}
    \cup {prediction[i] : i \in {i \in 1..Len(prediction) : choices[i].name = n}}

\* C10: every name of either list is returned once, with the greatest of
\* its normalized fuzzy confidences (score / max(sum, 0.001)) and its scorer
\* weight; fuzzy A 80, B 60 with scorer B 0.7, C 0.2 gives B 0.7, A 80/140,
\* C 0.2.
C10_MergeConfidence ==
    (rank_pc = "mixed_returned" /\ return_weights) =>
        LET fz == FuzzyGiven
            sum == SumSeq([k \in 1..Len(fz) |-> fz[k][2][1]])
            confs == [n \in Range(NamesOf(choices)) |-> CandidateConfs(fz, sum, n)]
        IN  /\ {rank_ret[i][1] : i \in 1..Len(rank_ret)} = {n \in DOMAIN confs : confs[n] # {}}
            /\ \A i, j \in 1..Len(rank_ret) : i < j => rank_ret[i][1] # rank_ret[j][1]
            /\ \A i \in 1..Len(rank_ret) :
                  /\ \E c \in confs[rank_ret[i][1]] : FracEq(c, rank_ret[i][2])
                  /\ \A c \in confs[rank_ret[i][1]] : FracLeq(c, rank_ret[i][2])
            /\ (sum = 0 => \A k \in 1..Len(fz) :
                  \E i \in 1..Len(rank_ret) :
                      rank_ret[i][1] = fz[k][1] /\ rank_ret[i][2][2] # 0)
            /\ (fuzzy_scores = <<80, 60, 0>> /\ prediction = <<<<0, 1>>, <<7, 10>>, <<1, 5>>>>) =>
                  /\ Len(rank_ret) = 3
                  /\ rank_ret[1][1] = "B" /\ FracEq(rank_ret[1][2], <<7, 10>>)
                  /\ rank_ret[2][1] = "A" /\ FracEq(rank_ret[2][2], <<80, 140>>)
                  /\ rank_ret[3][1] = "C" /\ FracEq(rank_ret[3][2], <<2, 10>>)

\* C10 witness: the merge of fuzzy A 80, B 60 (C 0) with scorer B 0.7,
\* C 0.2 (A 0) has returned.
C10_Witness ==
    /\ rank_pc = "mixed_returned"
    /\ return_weights
    /\ fuzzy_scores = <<80, 60, 0>>
    /\ prediction = <<<<0, 1>>, <<7, 10>>, <<1, 5>>>>
    /\ Len(rank_ret) = 3

\* C8: a scorer output whose length differs from the catalog's never
\* yields a ranking: pure_model and mixed_model abort.
C8_MismatchAborts ==
    (rank_pc \notin {"call", "idle"} /\ Len(prediction) # Len(choices)) =>
        rank_pc \notin {"pure_returned", "mixed_returned"}
----------------------------------------------------------------------------
(* Claims about evaluate                                                   *)

\* C2: after every processed pair the five buckets add up to the number of
\* pairs processed, and the counts evaluate returns add up to
\* len(query_pairs).
C2_BucketsPartition ==
    /\ ev_pc \in {"loop", "returned"} =>
          top_1 + top_2 + top_3 + top_10 + Len(failed) = ev_i
    /\ ev_pc = "returned" =>
          ev_ret.t1 + ev_ret.t2 + ev_ret.t3 + ev_ret.t10 + ev_ret.f = Len(query_pairs)

\* C2 witness: evaluate returned after two pairs, one found beyond the
\* third position, the other lost to a ranking of fewer than three names.
C2_Witness ==
    /\ ev_pc = "returned"
    /\ Len(query_pairs) = 2
    /\ ev_ret.t10 = 1
    /\ ev_ret.f = 1
    /\ Len(top_5) < 3
----------------------------------------------------------------------------
(* Claims about the encoder                                                *)

\* no alphabet names a character twice, and both spell the characters that
\* clean lets through
AlphabetsInjective ==
    \A A \in {MAGIC_1, MAGIC_2} :
        /\ Range(A) = Range(MAGIC_1)
        /\ \A c, d \in Range(MAGIC_1) : index(A, c) = index(A, d) => c = d

\* C6: in index mode two cleaned queries of equal length have different
\* encodings exactly when they differ; the code of every character is in
\* 1..len(alphabet) and 0 marks exactly the positions from the query's
\* length on.
C6_IndexEncodingInjective ==
    (tk_pc = "tokenized" /\ use_index) =>
        /\ AlphabetsInjective
        /\ \A k \in 1..2 :
              /\ Len(tk_query[k]) <= INPUT_LENGTH
              /\ Len(tk_tokenized[k]) = INPUT_LENGTH
              /\ \A i \in 1..INPUT_LENGTH :
                    IF i <= Len(tk_query[k])
                    THEN tk_tokenized[k][i] \in 1..Len(Magic(magic_string))
                    ELSE tk_tokenized[k][i] = 0
        /\ Len(tk_query[1]) = Len(tk_query[2]) =>
              ((tk_tokenized[1] # tk_tokenized[2]) <=> (tk_query[1] # tk_query[2]))

\* C6 witness: two raw queries longer than INPUT_LENGTH were cut to 16
\* characters that differ, and encoded.
C6_Witness ==
    /\ tk_pc = "tokenized"
    /\ use_index
    /\ Len(tk_raw[1]) > INPUT_LENGTH
    /\ Len(tk_query[1]) = INPUT_LENGTH
    /\ Len(tk_query[2]) = INPUT_LENGTH
    /\ tk_query[1] # tk_query[2]
    /\ tk_tokenized[1] # tk_tokenized[2]

----------------------------------------------------------------------------
(* Claims about naive_partial_match                                        *)

SubName(i) == IF return_weights THEN sub_ret[i][1] ELSE sub_ret[i]

CatalogPos(n) == CHOOSE i \in 1..Len(choices) : choices[i].name = n

IsExact(n) == lower(n) = lower(query)

IsSubstring(n) == Contains(lower(n), lower(query))

\* every match is returned once, exact matches first, with confidence
\* len(query) / len(name) when weights are requested
SubMatchesOnce ==
    /\ {SubName(i) : i \in 1..Len(sub_ret)} =
          {n \in Range(NamesOf(choices)) : IsExact(n) \/ IsSubstring(n)}
    /\ \A i, j \in 1..Len(sub_ret) : i < j =>
          /\ SubName(i) # SubName(j)
          /\ IsExact(SubName(j)) => IsExact(SubName(i))
    /\ return_weights =>
          \A i \in 1..Len(sub_ret) : sub_ret[i][2] = <<Len(query), Len(sub_ret[i][1])>>

\* within the exact and within the substring matches, catalog order
SubCatalogOrder ==
    \A i, j \in 1..Len(sub_ret) :
        (i < j /\ IsExact(SubName(i)) = IsExact(SubName(j))) =>
            CatalogPos(SubName(i)) < CatalogPos(SubName(j))

----------------------------------------------------------------------------
(* Claims about map_data, load_map and clean_dupes                         *)

RECURSIVE SumOver(_, _)
SumOver(f, S) ==
    IF S = {} THEN 0
    ELSE LET x == CHOOSE x \in S : TRUE IN f[x] + SumOver(f, S \ {x})

\* C3: aggregating the observations in any other order, or in two shards
\* whose counters are added, gives the counts of the single pass, in full
\* and in restricted mode.
C3_OrderIndependent ==
    pp_pc = "recounted" => (recount.full = cleaned /\ recount.srd = srd_cleaned)

\* C3 witness: three observations that fall on one query with two results
\* were aggregated again with the first and the last exchanged.
C3_Witness ==
    /\ pp_pc = "recounted"
    /\ recount.how = "reordered"
    /\ Len(data) = 3
    /\ recount.order[1] = 3
    /\ data[1].query = data[3].query
    /\ data[1].result # data[3].result
    /\ \E q \in DOMAIN cleaned : Cardinality(DOMAIN cleaned[q]) = 2

\* the shards: two non-empty parts that share a query were aggregated apart
C3_ShardedSeen ==
    /\ pp_pc = "recounted"
    /\ recount.how = "sharded"
    /\ recount.order = 1
    /\ Len(data) = 3
    /\ \E q \in DOMAIN cleaned : \E r \in DOMAIN cleaned[q] : cleaned[q][r] = 3

\* positions of the observations that have a restricted id
Restricted == {k \in 1..Len(data) : data[k].srd_result # None}

\* C4: in restricted mode an observation without a restricted id changes
\* nothing; every count is a positive integer, every query present has an
\* id, and the queries present are exactly those with an observation that
\* has a restricted id.
C4_RestrictedSkip ==
    pp_pc \in {"srd_deduped", "recounted"} =>
        /\ \A k \in 1..Len(data) :
              data[k].srd_result = None =>
                  clean_dupes(SubSeq(data, 1, k), TRUE) = clean_dupes(SubSeq(data, 1, k - 1), TRUE)
        /\ \A d \in {cleaned, srd_cleaned} : \A q \in DOMAIN d :
              /\ DOMAIN d[q] # {}
              /\ \A r \in DOMAIN d[q] : r # None /\ d[q][r] \in 1..Len(data)
        /\ DOMAIN srd_cleaned = {data[k].query : k \in Restricted}
        /\ SumOver([q \in DOMAIN srd_cleaned |-> SumOver(srd_cleaned[q], DOMAIN srd_cleaned[q])],
                   DOMAIN srd_cleaned) = Cardinality(Restricted)

\* C4 witness: one query was observed only with a result outside the
\* restricted subset and is absent from the restricted distribution, which
\* holds another query.
C4_Witness ==
    /\ pp_pc = "srd_deduped"
    /\ srd_cleaned # EmptyDict
    /\ \E q \in DOMAIN cleaned : q \notin DOMAIN srd_cleaned
    /\ \E k \in 1..Len(data) : data[k].srd_result = None /\ data[k].query \in DOMAIN srd_cleaned

\* C9: name -> id -> name is the identity in the full index; in the
\* restricted index it is the identity on the restricted names, whose ids
\* are 0..k-1 in catalog order; load_map reads the same maps back.
C9_IndexRoundTrip ==
    /\ pp_pc = "mapped" =>
          LET names == NamesOf(result_objs)
              members == {i \in 1..Len(result_objs) : result_objs[i].srd}
          IN  /\ DOMAIN reverse_map = Range(names)
              /\ \A i \in 1..Len(names) :
                    reverse_map[names[i]] = i - 1 /\ mapped[reverse_map[names[i]]] = names[i]
              /\ DOMAIN srd_reverse_map = {names[i] : i \in members}
              /\ DOMAIN srd_mapped = 0..(Cardinality(members) - 1)
              /\ \A i \in members : srd_mapped[srd_reverse_map[names[i]]] = names[i]
              /\ \A i, j \in members :
                    i < j => srd_reverse_map[names[i]] < srd_reverse_map[names[j]]
    /\ load_pc = "loaded" =>
          /\ map_ = (IF SRD THEN srd_mapped ELSE mapped)
          /\ \A n \in DOMAIN loaded_reverse_map : map_[loaded_reverse_map[n]] = n
          /\ DOMAIN loaded_reverse_map = {map_[k] : k \in DOMAIN map_}

\* C9 witness: a catalog of three whose first entry is outside the
\* restricted subset was indexed and its restricted map loaded.
C9_Witness ==
    /\ load_pc = "loaded"
    /\ SRD
    /\ Len(result_objs) = 3
    /\ ~result_objs[1].srd /\ result_objs[2].srd /\ result_objs[3].srd
    /\ map_[0] = result_objs[2].name

----------------------------------------------------------------------------
(* Claims about generate_y_vector                                          *)

\* C5: the label vector has num_results entries; the entry of id i is
\* count[i] / total, every other entry is 0, and the entries add up to 1.
C5_LabelVector ==
    vec_pc = "returned" =>
        LET total == SumOver(result_counts, DOMAIN result_counts)
        IN  /\ Len(vec) = num_results
            /\ \A i \in 0..(num_results - 1) :
                  /\ vec[i + 1][2] > 0
                  /\ IF i \in DOMAIN result_counts
                     THEN FracEq(vec[i + 1], <<result_counts[i], total>>)
                     ELSE vec[i + 1][1] = 0
            /\ \A i \in 1..num_results :
                  vec[i][2] = vec[1][2] /\ SumSeq([k \in 1..num_results |-> vec[k][1]]) = vec[i][2]

\* C5 witness: a vector over three ids was built from two unequal counts.
C5_Witness ==
    /\ vec_pc = "returned"
    /\ num_results = 3
    /\ DOMAIN result_counts = {0, 2}
    /\ result_counts[0] = 1 /\ result_counts[2] = 2
    /\ Len(vec) = 3

=============================================================================
